---- MODULE Spec2Model ----
(***************************************************************************)
(* Model of syntaxcomp: SentenceComplexity (per-sentence extraction of     *)
(* clauses, T-units and noun phrases from a dependency tree) and           *)
(* TextComplexity (the corpus fold and the derived metrics), as written in *)
(* src/src/syntaxcomp/complexity.py.                                       *)
(*                                                                         *)
(* A sentence is a sequence of tokens; the token at position i has id i.   *)
(* A token is a record [upos, deprel, head]. A tree node is named by the   *)
(* id of its token; its children are the tokens whose head is that id, in  *)
(* token order (conllu's TokenList.to_tree).                               *)
(***************************************************************************)
EXTENDS Integers, Sequences, FiniteSets, TLC

\* ---------------------------------------------------------------- bounds
\* longest sentence of the exhaustively enumerated single-sentence inputs
MaxTokens == 3
\* largest number of sentences of a corpus
MaxSents == 2

\* ------------------------------------------------------------- vocabulary
\* upos values excluded from all counts and spans (complexity.py:43,135,159)
PunctUpos == {"PUNCT", "SYM", "_"}

\* deprels of T-unit heads, conj only when the token is a VERB (complexity.py:54-56)
TUnitRels == {"root", "parataxis"}

\* deprels of clause-only heads, xcomp only when the token is a VERB (complexity.py:60-63)
ClauseRelsMut == {"advcl", "advcl:relcl", "acl:relcl", "ccomp",
                  "nsubj:outer", "csubj:outer", "csubj"}

ClauseRels == {"advcl", "advcl:relcl", "acl", "acl:relcl", "ccomp",
               "nsubj:outer", "csubj:outer", "csubj"}

\* upos values of NP heads (complexity.py:66)
NPUpos == {"NOUN", "PROPN", "PRON"}

\* deprels of noun-phrase-internal dependents (complexity.py:160-162)
NounRels == {"nmod", "nmod:poss", "nmod:tmod", "appos", "amod",
             "nummod", "nummod:gov", "det", "case"}

\* keys of clause_counter (complexity.py:269-272)
ClauseVocabularyMut == {"root", "acl:relcl", "advcl", "advcl:relcl", "ccomp",
                        "csubj", "csubj:outer", "nsubj:outer", "parataxis", "xcomp",
                        "conj"}

ClauseVocabulary == {"root", "acl", "acl:relcl", "advcl", "advcl:relcl", "ccomp",
                     "csubj", "csubj:outer", "nsubj:outer", "parataxis", "xcomp",
                     "conj"}

\* ------------------------------------------------------------ small helpers
Range(seq) == {seq[k] : k \in 1..Len(seq)}

Abs(x) == IF x < 0 THEN -x ELSE x

RECURSIVE SumSeq(_)
SumSeq(seq) == IF seq = <<>> THEN 0 ELSE Head(seq) + SumSeq(Tail(seq))

RECURSIVE MaxSeq(_)
MaxSeq(seq) ==
    IF Len(seq) = 1 THEN seq[1]
    ELSE LET m == MaxSeq(Tail(seq)) IN IF Head(seq) >= m THEN Head(seq) ELSE m

RECURSIVE MinSeq(_)
MinSeq(seq) ==
    IF Len(seq) = 1 THEN seq[1]
    ELSE LET m == MinSeq(Tail(seq)) IN IF Head(seq) <= m THEN Head(seq) ELSE m

\* the elements of a set of ids as a list, ascending (list.extend of a set of small ints)
RECURSIVE SetToSeq(_)
SetToSeq(S) ==
    IF S = {} THEN <<>>
    ELSE LET m == CHOOSE x \in S : \A y \in S : x <= y
         IN <<m>> \o SetToSeq(S \ {m})

\* --------------------------------------------------------------- the tree
\* ids of the children of node `id` (0 = above the root), in token order
Children(s, id) == SelectSeq([k \in 1..Len(s) |-> k], LAMBDA k : s[k].head = id)

\* the root node of tokenlist.to_tree(): the first token whose head is 0
TreeRoot(s) == Children(s, 0)[1]

\* get_tree_depth: a leaf has depth 1, any other node 1 + the deepest child
RECURSIVE get_tree_depth(_, _)
get_tree_depth(s, root) ==
    LET ch == Children(s, root) IN
    IF ch = <<>> THEN 1
    ELSE 1 + MaxSeq([k \in 1..Len(ch) |-> get_tree_depth(s, ch[k])])

\* get_curr_node threads curr_id through the traversal: it stays an id (node = FALSE)
\* until a node with that id is met and is the node (node = TRUE) from then on
RECURSIVE get_curr_node(_, _, _)
RECURSIVE CurrNodeOver(_, _, _)
get_curr_node(s, root, curr) ==
    IF ~curr.node /\ root = curr.id THEN [node |-> TRUE, id |-> root]
    ELSE CurrNodeOver(s, Children(s, root), curr)

CurrNodeOver(s, ch, curr) ==
    IF ch = <<>> THEN curr
    ELSE CurrNodeOver(s, Tail(ch), get_curr_node(s, Head(ch), curr))

\* the node get_units / get_nps work on for head_id
HeadNode(s, head_id) == get_curr_node(s, TreeRoot(s), [node |-> FALSE, id |-> head_id])

\* ------------------------------------------------------- span extraction
\* a child is kept, and its subtree entered, only if it is no boundary head and
\* no punctuation (complexity.py:133-137)
KeepChildMut(s, child, heads) == s[child].upos \notin PunctUpos

KeepChild(s, child, heads) ==
    child \notin Range(heads) /\ s[child].upos \notin PunctUpos

\* get_descendants: preorder list of the kept descendants of curr_token
RECURSIVE get_descendants(_, _, _)
RECURSIVE DescendantsOver(_, _, _)
get_descendants(s, curr_token, heads) == DescendantsOver(s, Children(s, curr_token), heads)

DescendantsOver(s, ch, heads) ==
    IF ch = <<>> THEN <<>>
    ELSE LET child == Head(ch) IN
         (IF KeepChild(s, child, heads)
          THEN <<child>> \o get_descendants(s, child, heads)
          ELSE <<>>) \o DescendantsOver(s, Tail(ch), heads)

\* a child is kept in a noun phrase, and its subtree entered, only if it is no
\* punctuation and its deprel is in the whitelist (complexity.py:158-164)
KeepNounChild(s, child) ==
    s[child].upos \notin PunctUpos /\ s[child].deprel \in NounRels

RECURSIVE get_noun_descendants(_, _)
RECURSIVE NounDescendantsOver(_, _)
get_noun_descendants(s, curr_token) == NounDescendantsOver(s, Children(s, curr_token))

NounDescendantsOver(s, ch) ==
    IF ch = <<>> THEN <<>>
    ELSE LET child == Head(ch) IN
         (IF KeepNounChild(s, child)
          THEN <<child>> \o get_noun_descendants(s, child)
          ELSE <<>>) \o NounDescendantsOver(s, Tail(ch))

\* get_units: one unit per head, in the order of heads
get_units(s, heads) ==
    [k \in 1..Len(heads) |->
        LET head_node == HeadNode(s, heads[k]).id IN
        [head_id |-> heads[k],
         dep_ids |-> get_descendants(s, head_node, heads),
         rel_type |-> s[head_node].deprel]]

\* a head already listed as a descendant of an emitted NP is skipped (complexity.py:205-206)
SkipNPMut(head_id, all_descendants) == FALSE

SkipNP(head_id, all_descendants) == head_id \in Range(all_descendants)

\* get_nps: the loop over np_heads from position k on, with the NPs emitted so far
\* and the running list of their descendants
RECURSIVE NPsFrom(_, _, _, _, _)
NPsFrom(s, np_heads, k, nps, all_descendants) ==
    IF k > Len(np_heads) THEN nps
    ELSE LET head_id == np_heads[k]
             head_node == HeadNode(s, head_id).id
             descendants == get_noun_descendants(s, head_node)
         IN IF SkipNP(head_id, all_descendants)
            THEN NPsFrom(s, np_heads, k + 1, nps, all_descendants)
            ELSE NPsFrom(s, np_heads, k + 1,
                         Append(nps, [head_id |-> head_id,
                                      dep_ids |-> descendants,
                                      rel_type |-> s[head_node].deprel,
                                      length |-> Cardinality({head_id} \cup Range(descendants))]),
                         all_descendants \o descendants)

get_nps(s, np_heads) == NPsFrom(s, np_heads, 1, <<>>, <<>>)

\* --------------------------------------------------- SentenceComplexity
\* the ids of the tokens the token pass does not skip (complexity.py:42-43)
CountedIds(s) ==
    SelectSeq([k \in 1..Len(s) |-> k], LAMBDA k : s[k].upos \notin PunctUpos)

\* first branch of the classification: T-unit head and clause head (complexity.py:54-58)
IsTHeadMut(token) ==
    \/ token.deprel \in TUnitRels
    \/ token.deprel = "conj"

IsTHead(token) ==
    \/ token.deprel \in TUnitRels
    \/ token.deprel = "conj" /\ token.upos = "VERB"

\* second branch, tried only when the first fails: clause head only (complexity.py:60-64)
IsClauseOnlyHead(token) ==
    /\ ~IsTHead(token)
    /\ \/ token.deprel \in ClauseRels
       \/ token.deprel = "xcomp" /\ token.upos = "VERB"

\* the tokens appended to c_heads: both branches
IsCHeadMut(token) == IsClauseOnlyHead(token)

IsCHead(token) == IsTHead(token) \/ IsClauseOnlyHead(token)

\* the tokens appended to np_heads (complexity.py:66-67)
IsNPHead(token) == token.upos \in NPUpos

\* SentenceComplexity.__init__: the fields of the object built for sentence s
SentenceComplexity(s) ==
    LET ids == CountedIds(s)
        c_heads == SelectSeq(ids, LAMBDA k : IsCHead(s[k]))
        t_heads == SelectSeq(ids, LAMBDA k : IsTHead(s[k]))
        np_heads == SelectSeq(ids, LAMBDA k : IsNPHead(s[k]))
        all_nodes == Range(ids)
        nonterminal == {s[k].head : k \in Range(ids)}
        clauses == get_units(s, c_heads)
        t_units == get_units(s, t_heads)
        nps == get_nps(s, np_heads)
    IN [tokenlist |-> s,
        length |-> Len(ids),
        c_heads |-> c_heads,
        t_heads |-> t_heads,
        np_heads |-> np_heads,
        pos_chain |-> [k \in 1..Len(ids) |-> s[ids[k]].upos],
        dep_chain |-> [k \in 1..Len(ids) |-> s[ids[k]].deprel],
        dep_dists |-> [k \in 1..Len(ids) |-> Abs(s[ids[k]].head - ids[k])],
        all_nodes |-> all_nodes,
        nonterminal |-> nonterminal,
        terminal |-> all_nodes \ nonterminal,
        clauses |-> clauses,
        num_cl |-> Len(clauses),
        t_units |-> t_units,
        num_tu |-> Len(t_units),
        nps |-> nps,
        num_np |-> Len(nps),
        tree_depth |-> get_tree_depth(s, TreeRoot(s))]

\* ------------------------------------------------------------ arithmetic
\* a / b of two ints: the exact quotient as a fraction; den = 0 stands for the
\* ZeroDivisionError the division raises
Div(a, b) == [num |-> a, den |-> b]

Raises(q) == q.den = 0

\* the int 0 the except branches assign
Zero == [num |-> 0, den |-> 1]

\* statistics.mean of a list of ints; den = 0 stands for StatisticsError (no data)
Mean(seq) == [num |-> SumSeq(seq), den |-> Len(seq)]

\* statistics.median of a non-empty list of ints
Median(seq) ==
    LET sorted == SortSeq(seq, LAMBDA a, b : a < b)
        n == Len(seq)
    IN IF n % 2 = 1 THEN [num |-> sorted[(n + 1) \div 2], den |-> 1]
       ELSE [num |-> sorted[n \div 2] + sorted[n \div 2 + 1], den |-> 2]

\* try: a / b  except ZeroDivisionError: 0   (complexity.py:330-346)
DivOrZeroMut(a, b) == Div(a, b)

DivOrZero(a, b) == IF Raises(Div(a, b)) THEN Zero ELSE Div(a, b)

\* ------------------------------------------------------- TextComplexity
VARIABLES
    sentences,   \* self.sentences: the parsed annotation, a list of sentences
    i,           \* number of sentences the loop of __init__ has taken
    sent,        \* the loop's variable sent: <<>> before the first iteration, else <<the object>>
    self,        \* the attributes of the TextComplexity object assigned so far
    locals,      \* the local lists of __init__
    status,      \* "running", "done", or the exception that ended __init__
    example      \* the same for the TextComplexity of example.py: [i, self, locals, status]

vars == <<sentences, i, sent, self, locals, status, example>>

\* complexity.py:265-272
InitSelf ==
    [sent_comp |-> <<>>, num_w |-> 0, num_cl |-> 0, num_tu |-> 0,
     clause_counter |-> [rel \in ClauseVocabulary |-> 0]]

InitLocals ==
    [pos_chains |-> <<>>, dep_chains |-> <<>>, tree_depths |-> <<>>,
     dep_dists |-> <<>>, terminal |-> <<>>, all_nodes |-> <<>>, nps |-> <<>>]

\* what all_nodes.extend(...) is given for a sentence (complexity.py:285)
AllNodesOfMut(sc) == sc.nonterminal

AllNodesOf(sc) == sc.all_nodes

\* len(sent) == 0: the sentence is excluded (complexity.py:277-278)
IsBrokenMut(sc) == FALSE

IsBroken(sc) == sc.length = 0

\* for clause in sent.clauses: self.clause_counter[clause['rel_type']] += 1
\* a key the dict does not hold raises KeyError and leaves the earlier increments
RECURSIVE CountClauses(_, _, _)
CountClauses(counter, clauses, k) ==
    IF k > Len(clauses) THEN [clause_counter |-> counter, status |-> "running"]
    ELSE IF clauses[k].rel_type \notin DOMAIN counter
         THEN [clause_counter |-> counter, status |-> "KeyError"]
         ELSE CountClauses([counter EXCEPT ![clauses[k].rel_type] = @ + 1], clauses, k + 1)

\* one iteration of the loop over self.sentences (complexity.py:274-291)
FoldStep(sf, lc, s) ==
    LET sc == SentenceComplexity(s) IN
    IF IsBroken(sc) THEN [self |-> sf, locals |-> lc, status |-> "running"]
    ELSE LET counted == CountClauses(sf.clause_counter, sc.clauses, 1) IN
         [self |-> [sf EXCEPT !.sent_comp = Append(@, sc),
                              !.num_w = @ + sc.length,
                              !.num_cl = @ + sc.num_cl,
                              !.num_tu = @ + sc.num_tu,
                              !.clause_counter = counted.clause_counter],
          locals |-> [lc EXCEPT !.dep_dists = @ \o sc.dep_dists,
                                !.terminal = @ \o SetToSeq(sc.terminal),
                                !.all_nodes = @ \o SetToSeq(AllNodesOf(sc)),
                                !.nps = @ \o sc.nps,
                                !.pos_chains = Append(@, sc.pos_chain),
                                !.dep_chains = Append(@, sc.dep_chain),
                                !.tree_depths = Append(@, sc.tree_depth)],
          status |-> counted.status]

\* The rest of __init__ in stages; a stage runs only if no earlier one raised.
\* r = [self, locals, status].
\* complexity.py:293-294
CheckEmptyMut(r) ==
    IF r.status # "running" THEN r
    ELSE IF r.self.num_cl = 0 THEN [r EXCEPT !.status = "ValueError"]
    ELSE r

CheckEmpty(r) ==
    IF r.status # "running" THEN r
    ELSE IF r.self.num_w = 0 THEN [r EXCEPT !.status = "ValueError"]
    ELSE r

\* assigns attribute `name` the quotient q, or raises when the division does
SetQuotient(r, name, q) ==
    IF r.status # "running" THEN r
    ELSE IF Raises(q) THEN [r EXCEPT !.status = "ZeroDivisionError"]
    ELSE [r EXCEPT !.self = (name :> q) @@ @]

\* assigns attribute `name` the mean m, or raises when there is no data
SetMean(r, name, m) ==
    IF r.status # "running" THEN r
    ELSE IF Raises(m) THEN [r EXCEPT !.status = "StatisticsError"]
    ELSE [r EXCEPT !.self = (name :> m) @@ @]

\* assigns attribute `name` a value whose computation cannot raise
SetAttr(r, name, v) ==
    IF r.status # "running" THEN r
    ELSE [r EXCEPT !.self = (name :> v) @@ @]

\* complexity.py:296-303
SentenceRatios(r0) ==
    LET r1 == SetAttr(r0, "num_s", Len(r0.self.sent_comp))
        r2 == SetQuotient(r1, "msl", Div(r1.self.num_w, r1.self.num_s))
        r3 == SetQuotient(r2, "mcl", Div(r2.self.num_w, r2.self.num_cl))
        r4 == SetQuotient(r3, "mtl", Div(r3.self.num_w, r3.self.num_tu))
        r5 == SetQuotient(r4, "cps", Div(r4.self.num_cl, r4.self.num_s))
        r6 == SetQuotient(r5, "cpt", Div(r5.self.num_cl, r5.self.num_tu))
    IN IF r6.status # "running" THEN r6
       ELSE SetAttr(r6, "clause_percentage",
                    [rel \in DOMAIN r6.self.clause_counter |->
                        Div(r6.self.clause_counter[rel], r6.self.num_cl)])

\* complexity.py:316-322 (lev_pos and lev_dep, complexity.py:305-314, are left out:
\* their StatisticsError is caught and they feed no other attribute)
TreeAndNodeMeasures(r0) ==
    IF r0.status # "running" THEN r0
    ELSE
    LET r1 == SetMean(r0, "mtd", Mean(r0.locals.tree_depths))
        r2 == SetAttr(r1, "mdtd", Median(r0.locals.tree_depths))
        r3 == SetAttr(r2, "mxtd", MaxSeq(r0.locals.tree_depths))
        r4 == SetAttr(r3, "mntd", MinSeq(r0.locals.tree_depths))
        r5 == SetMean(r4, "mdd", Mean(r0.locals.dep_dists))
    IN SetQuotient(r5, "node_to_term",
                   Div(Len(r0.locals.all_nodes), Len(r0.locals.terminal)))

\* complexity.py:324-351
CoordSubordMeasures(r0) ==
    IF r0.status # "running" THEN r0
    ELSE
    LET comb == r0.self.num_cl - r0.self.num_s
        coord == r0.self.clause_counter["conj"] + r0.self.clause_counter["parataxis"]
        subord == comb - coord
        r1 == SetAttr(SetAttr(SetAttr(r0, "comb", comb), "coord", coord), "subord", subord)
        r2 == SetAttr(r1, "coord_to_comb", DivOrZero(coord, comb))
        r3 == SetAttr(r2, "subord_to_comb", DivOrZero(subord, comb))
        r4 == SetAttr(r3, "coord_to_subord", DivOrZero(coord, subord))
        r5 == SetQuotient(r4, "coord_to_sent", Div(coord, r0.self.num_s))
    IN SetQuotient(r5, "subord_to_sent", Div(subord, r0.self.num_s))

\* complexity.py:352-356
NPMeasures(r0) ==
    IF r0.status # "running" THEN r0
    ELSE
    LET nps == r0.locals.nps
        lengths == [k \in 1..Len(nps) |-> nps[k].length]
        r1 == SetMean(r0, "avg_np_len", Mean(lengths))
    IN SetQuotient(r1, "comp_np_ratio",
                   Div(Len(SelectSeq(lengths, LAMBDA n : n > 1)), Len(nps)))

\* everything after the loop (complexity.py:293-356)
DeriveResult(sf, lc) ==
    LET r == NPMeasures(CoordSubordMeasures(TreeAndNodeMeasures(SentenceRatios(
                 CheckEmpty([self |-> sf, locals |-> lc, status |-> "running"])))))
    IN [r EXCEPT !.status = IF @ = "running" THEN "done" ELSE @]

\* ------------------------------------- TextComplexity of example.py
\* example.py:174-181
InitExample ==
    [i |-> 0,
     self |-> [sent_comp |-> <<>>, num_w |-> 0, num_cl |-> 0, num_tu |-> 0,
               pos_chains |-> <<>>, dep_chains |-> <<>>, tree_depths |-> <<>>,
               clause_counter |-> [rel \in ClauseVocabulary |-> 0]],
     locals |-> [dep_dists |-> <<>>, terminal |-> <<>>, nonterminal |-> <<>>, nps |-> <<>>],
     status |-> "running"]

\* one iteration of the loop of example.py (example.py:183-199): the sentence is
\* appended to sent_comp before the test that excludes broken sentences
ExampleFoldStep(sf, lc, s) ==
    LET sc == SentenceComplexity(s)
        appended == [sf EXCEPT !.sent_comp = Append(@, sc)]
    IN
    IF IsBroken(sc) THEN [self |-> appended, locals |-> lc, status |-> "running"]
    ELSE LET counted == CountClauses(sf.clause_counter, sc.clauses, 1) IN
         [self |-> [appended EXCEPT !.num_w = @ + sc.length,
                                    !.num_cl = @ + sc.num_cl,
                                    !.num_tu = @ + sc.num_tu,
                                    !.pos_chains = Append(@, sc.pos_chain),
                                    !.dep_chains = Append(@, sc.dep_chain),
                                    !.tree_depths = Append(@, sc.tree_depth),
                                    !.clause_counter = counted.clause_counter],
          locals |-> [lc EXCEPT !.dep_dists = @ \o sc.dep_dists,
                                !.terminal = @ \o SetToSeq(sc.terminal),
                                !.nonterminal = @ \o SetToSeq(sc.nonterminal),
                                !.nps = @ \o sc.nps],
          status |-> counted.status]

\* example.py:204-209
ExampleSentenceRatios(r0) ==
    LET r1 == SetAttr(r0, "num_s", Len(r0.self.sent_comp))
        r2 == SetQuotient(r1, "msl", Div(r1.self.num_w, r1.self.num_s))
        r3 == SetQuotient(r2, "mcl", Div(r2.self.num_w, r2.self.num_cl))
        r4 == SetQuotient(r3, "mtl", Div(r3.self.num_w, r3.self.num_tu))
        r5 == SetQuotient(r4, "cps", Div(r4.self.num_cl, r4.self.num_s))
    IN SetQuotient(r5, "cpt", Div(r5.self.num_cl, r5.self.num_tu))

\* example.py:222-232 (lev_pos and lev_dep, example.py:211-220, are left out as above)
ExampleTreeAndNodeMeasures(r0) ==
    IF r0.status # "running" THEN r0
    ELSE
    LET r1 == SetMean(r0, "mtd", Mean(r0.self.tree_depths))
        r2 == SetAttr(r1, "mdtd", Median(r0.self.tree_depths))
        r3 == SetAttr(r2, "mxtd", MaxSeq(r0.self.tree_depths))
        r4 == SetAttr(r3, "mntd", MinSeq(r0.self.tree_depths))
        r5 == SetMean(r4, "mdd", Mean(r0.locals.dep_dists))
        r6 == SetQuotient(r5, "node_to_term",
                          Div(Len(r0.locals.nonterminal), Len(r0.locals.terminal)))
    IN IF r6.status # "running" THEN r6
       ELSE SetAttr(r6, "clause_percentage",
                    [rel \in DOMAIN r6.self.clause_counter |->
                        Div(r6.self.clause_counter[rel], r6.self.num_cl)])

\* everything after the loop (example.py:201-266); the empty check, the
\* coordination measures and the NP measures read as in complexity.py
ExampleDeriveResult(sf, lc) ==
    LET r == NPMeasures(CoordSubordMeasures(ExampleTreeAndNodeMeasures(
                 ExampleSentenceRatios(
                     CheckEmpty([self |-> sf, locals |-> lc, status |-> "running"])))))
    IN [r EXCEPT !.status = IF @ = "running" THEN "done" ELSE @]

\* ---------------------------------------------------------------- inputs
Kind(upos, deprel) == [upos |-> upos, deprel |-> deprel]

\* the token whose head is 0 carries deprel root (CoNLL-U); its upos may be a
\* word's or a symbol's ("$ 5": the SYM governs the numeral)
RootKinds == {Kind("VERB", "root"), Kind("NOUN", "root"), Kind("SYM", "root")}

\* the other tokens of the enumerated sentences
DepKinds == {Kind("PUNCT", "punct"), Kind("VERB", "conj"), Kind("NOUN", "conj"),
             Kind("VERB", "acl"), Kind("NOUN", "nmod"), Kind("NUM", "nummod")}

\* following head from token k reaches 0 within fuel steps
RECURSIVE ReachesRoot(_, _, _)
ReachesRoot(h, k, fuel) ==
    IF k = 0 THEN TRUE
    ELSE IF fuel = 0 THEN FALSE
    ELSE ReachesRoot(h, h[k], fuel - 1)

\* the head columns of n tokens that form a tree: exactly one token has head 0
\* and every token reaches it
HeadColumns(n) ==
    {h \in [1..n -> 0..n] :
        /\ Cardinality({k \in 1..n : h[k] = 0}) = 1
        /\ \A k \in 1..n : ReachesRoot(h, k, n)}

\* the sentence with head column h, root kind rk and the kinds dk of the other tokens
MakeSentence(n, h, rk, dk) ==
    [k \in 1..n |->
        IF h[k] = 0
        THEN [upos |-> rk.upos, deprel |-> rk.deprel, head |-> 0]
        ELSE [upos |-> dk[k].upos, deprel |-> dk[k].deprel, head |-> h[k]]]

Tok(upos, deprel, head) == [upos |-> upos, deprel |-> deprel, head |-> head]

\* "This is a text containing two sentences."
ScenarioA ==
    <<Tok("PRON", "nsubj", 4), Tok("AUX", "cop", 4), Tok("DET", "det", 4),
      Tok("NOUN", "root", 0), Tok("VERB", "acl", 4), Tok("NUM", "nummod", 7),
      Tok("NOUN", "obj", 5), Tok("PUNCT", "punct", 4)>>

\* "This is the second sentence."
ScenarioB ==
    <<Tok("PRON", "nsubj", 5), Tok("AUX", "cop", 5), Tok("DET", "det", 5),
      Tok("ADJ", "amod", 5), Tok("NOUN", "root", 0), Tok("PUNCT", "punct", 5)>>

\* "$": no counted token
SymbolOnly == <<Tok("SYM", "root", 0)>>

\* "$ 5": the symbol governs the numeral
Price == <<Tok("SYM", "root", 0), Tok("NUM", "nummod", 1)>>

\* "Go": a clause and no noun phrase
VerbOnly == <<Tok("VERB", "root", 0)>>

\* "Come, see": two coordinated verbs
Coordinated == <<Tok("VERB", "root", 0), Tok("PUNCT", "punct", 3), Tok("VERB", "conj", 1)>>

\* "Go, please": a parataxis
Paratactic == <<Tok("VERB", "root", 0), Tok("VERB", "parataxis", 1)>>

\* "cats, dogs": coordinated nouns, conj on a token that is no VERB
NounConj == <<Tok("NOUN", "root", 0), Tok("NOUN", "conj", 1)>>

\* "Stay calm": xcomp on a token that is no VERB
XcompAdj == <<Tok("VERB", "root", 0), Tok("ADJ", "xcomp", 1)>>

\* "Try running": xcomp on a VERB
XcompVerb == <<Tok("VERB", "root", 0), Tok("VERB", "xcomp", 1)>>

\* "city lights": a noun modifier before its head
NounPhrase == <<Tok("NOUN", "nmod", 2), Tok("NOUN", "root", 0)>>

\* the sentences multi-sentence corpora are built from
SentencePool ==
    {ScenarioA, ScenarioB, SymbolOnly, Price, VerbOnly, Coordinated, Paratactic,
     NounConj, XcompAdj, XcompVerb, NounPhrase}

\* every corpus of up to MaxSents pool sentences
PoolCorpora == UNION {[1..n -> SentencePool] : n \in 0..MaxSents}

\* ----------------------------------------------------------- state machine
\* the annotations construction is run on: every single sentence of up to
\* MaxTokens tokens, and every corpus of up to MaxSents pool sentences
Init ==
    /\ \/ \E n \in 1..MaxTokens :
            \E h \in HeadColumns(n), rk \in RootKinds, dk \in [1..n -> DepKinds] :
                sentences = <<MakeSentence(n, h, rk, dk)>>
       \/ sentences \in PoolCorpora
    /\ i = 0
    /\ sent = <<>>
    /\ self = InitSelf
    /\ locals = InitLocals
    /\ status = "running"
    /\ example = InitExample

\* one iteration of `for sentence in self.sentences`
FoldSentence ==
    /\ status = "running"
    /\ i < Len(sentences)
    /\ LET r == FoldStep(self, locals, sentences[i + 1]) IN
        /\ sent' = <<SentenceComplexity(sentences[i + 1])>>
        /\ self' = r.self
        /\ locals' = r.locals
        /\ status' = r.status
    /\ i' = i + 1
    /\ UNCHANGED <<sentences, example>>

\* the loop is over: the empty check and the derived metrics
Derive ==
    /\ status = "running"
    /\ i = Len(sentences)
    /\ LET r == DeriveResult(self, locals) IN
        /\ self' = r.self
        /\ status' = r.status
    /\ UNCHANGED <<sentences, i, sent, locals, example>>

\* The construction of example.py on the same annotation. The two constructions
\* share nothing, so the model runs this one once the other has ended.
\* one iteration of `for i, sent in enumerate(self.sentences)`
ExampleFoldSentence ==
    /\ status # "running"
    /\ example.status = "running"
    /\ example.i < Len(sentences)
    /\ LET r == ExampleFoldStep(example.self, example.locals, sentences[example.i + 1]) IN
        example' = [i |-> example.i + 1, self |-> r.self,
                    locals |-> r.locals, status |-> r.status]
    /\ UNCHANGED <<sentences, i, sent, self, locals, status>>

\* the loop of example.py is over: the empty check and the derived metrics
ExampleDerive ==
    /\ status # "running"
    /\ example.status = "running"
    /\ example.i = Len(sentences)
    /\ LET r == ExampleDeriveResult(example.self, example.locals) IN
        example' = [i |-> example.i, self |-> r.self,
                    locals |-> r.locals, status |-> r.status]
    /\ UNCHANGED <<sentences, i, sent, self, locals, status>>

Next == FoldSentence \/ Derive \/ ExampleFoldSentence \/ ExampleDerive

Spec == Init /\ [][Next]_vars

\* the loop over a whole list of sentences, stopping where an iteration raises
RECURSIVE FoldAll(_, _, _)
FoldAll(sf, lc, seq) ==
    IF seq = <<>> THEN [self |-> sf, locals |-> lc, status |-> "running"]
    ELSE LET r == FoldStep(sf, lc, Head(seq)) IN
         IF r.status # "running" THEN r ELSE FoldAll(r.self, r.locals, Tail(seq))

\* TextComplexity(annotation): the loop, then the derived metrics
Construct(annotation) ==
    LET f == FoldAll(InitSelf, InitLocals, annotation) IN
    IF f.status # "running" THEN f ELSE DeriveResult(f.self, f.locals)

\* ---------------------------------------------------------------- claims
\* the token ids of a unit: its head and its dependents
Span(unit) == {unit.head_id} \cup Range(unit.dep_ids)

\* a sentence has no counted token: every upos is PUNCT, SYM or _
Degenerate(s) == \A k \in 1..Len(s) : s[k].upos \in {"PUNCT", "SYM", "_"}

\* two fractions with nonzero denominators are the same number
SameNumber(p, q) == p.den # 0 /\ q.den # 0 /\ p.num * q.den = q.num * p.den

DisjointUnits(units) ==
    \A a, b \in 1..Len(units) : a # b => Span(units[a]) \cap Span(units[b]) = {}

\* C1: in each of the two get_units passes of a tree-shaped sentence the spans
\* (head plus dep_ids) of two different units share no token id
C1_SpansDisjoint ==
    sent # <<>> => DisjointUnits(sent[1].clauses) /\ DisjointUnits(sent[1].t_units)

\* a clause nested under another clause's span, with a dependent of its own
C1_Witness ==
    /\ sent # <<>>
    /\ \E a, b \in 1..Len(sent[1].clauses) :
        /\ a # b
        /\ sent[1].tokenlist[sent[1].clauses[b].head_id].head \in Span(sent[1].clauses[a])
        /\ sent[1].clauses[b].dep_ids # <<>>

\* C2: a sentence with no counted token leaves every accumulator as it was, so
\* after any prefix the state is that of the prefix without such sentences and
\* the outcome is that of the corpus without them
C2_DegenerateSkipped ==
    LET kept(seq) == SelectSeq(seq, LAMBDA s : ~Degenerate(s)) IN
    /\ status = "running" =>
        LET f == FoldAll(InitSelf, InitLocals, kept(SubSeq(sentences, 1, i))) IN
        self = f.self /\ locals = f.locals
    /\ status # "running" =>
        LET c == Construct(kept(sentences)) IN
        self = c.self /\ locals = c.locals /\ status = c.status

\* construction completed on a corpus holding a degenerate sentence
C2_Witness ==
    /\ status = "done"
    /\ \E k \in 1..Len(sentences) : Degenerate(sentences[k])

\* the corpus holds a token whose deprel is no key of clause_counter
HasUnknownLabel ==
    \E k \in 1..Len(sentences) : \E t \in 1..Len(sentences[k]) :
        /\ sentences[k][t].deprel \notin ClauseVocabulary
        /\ sentences[k][t].upos \notin PunctUpos

\* C3 as stated: a corpus with a deprel outside the 12 keys ends in KeyError
C3_Original ==
    (status # "running" /\ HasUnknownLabel) => status = "KeyError"

\* C3 amended: construction never ends in KeyError; a token whose deprel is no key
\* of clause_counter is never a clause head, so it heads no clause unit and
\* increments no counter
C3_UnknownLabelIgnored ==
    /\ status # "KeyError"
    /\ sent # <<>> =>
        /\ \A t \in 1..Len(sent[1].tokenlist) :
            sent[1].tokenlist[t].deprel \notin ClauseVocabulary
                => t \notin Range(sent[1].c_heads)
        /\ \A k \in 1..Len(sent[1].clauses) :
            sent[1].clauses[k].rel_type \in DOMAIN self.clause_counter

\* construction completed on a corpus with a counted token labelled outside the keys
C3_Witness == status = "done" /\ HasUnknownLabel

\* C4: construction ends in the empty-corpus ValueError exactly when every
\* sentence is degenerate (also when there is none), and then no derived metric
\* has been assigned
C4_EmptyIffAllDegenerate ==
    status # "running" =>
        /\ status = "ValueError" <=> \A k \in 1..Len(sentences) : Degenerate(sentences[k])
        /\ status = "ValueError" => DOMAIN self = DOMAIN InitSelf

\* the empty-corpus error on a corpus that has sentences
C4_Witness == status = "ValueError" /\ Len(sentences) >= 1

\* C5: once the coordination ratios are assigned, each is 0 when its denominator
\* is 0 and the plain quotient otherwise, and no ZeroDivisionError comes from them
C5_RatiosFallBack ==
    /\ "coord_to_subord" \in DOMAIN self =>
        /\ self.comb = 0 => self.coord_to_comb = Zero /\ self.subord_to_comb = Zero
        /\ self.subord = 0 => self.coord_to_subord = Zero
        /\ self.comb # 0 =>
            /\ SameNumber(self.coord_to_comb, [num |-> self.coord, den |-> self.comb])
            /\ SameNumber(self.subord_to_comb, [num |-> self.subord, den |-> self.comb])
        /\ self.subord # 0 =>
            SameNumber(self.coord_to_subord, [num |-> self.coord, den |-> self.subord])
    /\ "comb" \in DOMAIN self => status \in {"done", "StatisticsError"}

\* a corpus with combined clauses, all of them coordinate: one ratio falls back
C5_Witness ==
    /\ "coord_to_subord" \in DOMAIN self
    /\ self.comb # 0
    /\ self.subord = 0
    /\ self.coord_to_subord = Zero

\* C6: a sentence with a counted token has a terminal id and its terminal ids are
\* among its counted ids, so once words are folded the node_to_term division has a
\* nonzero denominator, the ratio is at least 1, and no ZeroDivisionError is raised
\* at or after it
C6_NodeToTermAtLeastOne ==
    /\ (sent # <<>> /\ sent[1].length > 0) =>
        sent[1].terminal # {} /\ sent[1].terminal \subseteq Range(CountedIds(sent[1].tokenlist))
    /\ self.num_w > 0 =>
        Len(locals.terminal) >= 1 /\ Len(locals.all_nodes) >= Len(locals.terminal)
    /\ "node_to_term" \in DOMAIN self =>
        self.node_to_term.den > 0 /\ self.node_to_term.num >= self.node_to_term.den
    /\ status = "ZeroDivisionError" => "mdd" \notin DOMAIN self

\* a completed construction whose ratio is above 1
C6_Witness ==
    /\ status = "done"
    /\ self.node_to_term.num > self.node_to_term.den

\* C7 as stated: the corpus of Scenario A and Scenario B has 2 sentences, 2 clauses,
\* no combined clause, and both ratios to combined clauses are the fallback 0
C7_Original ==
    (sentences = <<ScenarioA, ScenarioB>> /\ status # "running") =>
        /\ status = "done"
        /\ self.num_s = 2
        /\ self.num_cl = 2
        /\ self.comb = 0
        /\ self.coord_to_comb = Zero
        /\ self.subord_to_comb = Zero

\* C7 amended: the corpus of Scenario A and Scenario B completes with 2 sentences and
\* 3 clauses (root and acl of A, root of B), so comb = 1, coord = 0, subord = 1,
\* coord_to_comb is the quotient 0/1 and subord_to_comb the quotient 1/1
C7_ScenarioC ==
    (sentences = <<ScenarioA, ScenarioB>> /\ status # "running") =>
        /\ status = "done"
        /\ self.num_s = 2
        /\ self.num_cl = 3
        /\ self.num_tu = 2
        /\ self.comb = 1
        /\ self.coord = 0
        /\ self.subord = 1
        /\ self.coord_to_comb = [num |-> 0, den |-> 1]
        /\ self.subord_to_comb = [num |-> 1, den |-> 1]
        /\ self.sent_comp[1].c_heads = <<4, 5>>
        /\ self.sent_comp[1].t_heads = <<4>>
        /\ self.sent_comp[2].c_heads = <<5>>

\* construction of the Scenario A + Scenario B corpus has completed
C7_Witness == sentences = <<ScenarioA, ScenarioB>> /\ status = "done"

\* the head ids of a list of units
HeadIds(units) == {units[k].head_id : k \in 1..Len(units)}

\* C8: get_nps emits an NP for a head exactly when no NP emitted for a smaller head
\* id lists it in dep_ids; the emitted head ids are strictly ascending (so pairwise
\* distinct) and each length is 1 + the number of dep_ids
C8_NPDeduplicated ==
    sent # <<>> =>
        LET nps == sent[1].nps
            np_heads == sent[1].np_heads
        IN /\ \A k \in 1..Len(np_heads) :
                np_heads[k] \in HeadIds(nps) <=>
                    ~\E u \in 1..Len(nps) :
                        /\ nps[u].head_id < np_heads[k]
                        /\ np_heads[k] \in Range(nps[u].dep_ids)
           /\ \A a, b \in 1..Len(nps) : a < b => nps[a].head_id < nps[b].head_id
           /\ \A u \in 1..Len(nps) : nps[u].length = 1 + Len(nps[u].dep_ids)
           /\ HeadIds(nps) \subseteq Range(np_heads)

\* an NP head was skipped because an earlier NP had taken it in
C8_Witness ==
    /\ sent # <<>>
    /\ \E k \in 1..Len(sent[1].np_heads) : sent[1].np_heads[k] \notin HeadIds(sent[1].nps)
    /\ sent[1].nps # <<>>

\* the corpus has a sentence with a counted token but no token that heads an NP
NPFreeCorpus ==
    /\ \E k \in 1..Len(sentences) : ~Degenerate(sentences[k])
    /\ \A k \in 1..Len(sentences) : \A t \in 1..Len(sentences[k]) :
        sentences[k][t].upos \notin {"NOUN", "PROPN", "PRON"}

\* C9: on a corpus with a counted token and no NOUN, PROPN or PRON token,
\* construction ends in the error of the NP-length statistics (everything before
\* them has been assigned), which is not the empty-corpus error
C9_NPFreeAborts ==
    (NPFreeCorpus /\ status # "running") =>
        /\ status = "StatisticsError"
        /\ "subord_to_sent" \in DOMAIN self
        /\ "avg_np_len" \notin DOMAIN self

\* C10: the T-unit heads are clause heads, and the clause unit of a T-unit head is
\* contained in its T-unit
C10_TUnitContainsClause ==
    sent # <<>> =>
        /\ Range(sent[1].t_heads) \subseteq Range(sent[1].c_heads)
        /\ \A u \in 1..Len(sent[1].t_units) :
            \E c \in 1..Len(sent[1].clauses) :
                /\ sent[1].clauses[c].head_id = sent[1].t_units[u].head_id
                /\ Range(sent[1].clauses[c].dep_ids) \subseteq Range(sent[1].t_units[u].dep_ids)

\* a T-unit strictly larger than the clause unit of its head
C10_Witness ==
    /\ sent # <<>>
    /\ \E u \in 1..Len(sent[1].t_units) : \E c \in 1..Len(sent[1].clauses) :
        /\ sent[1].clauses[c].head_id = sent[1].t_units[u].head_id
        /\ Range(sent[1].clauses[c].dep_ids) # Range(sent[1].t_units[u].dep_ids)

\* the clause units of the folded sentences, one list
RECURSIVE AllClauses(_)
AllClauses(sent_comp) ==
    IF sent_comp = <<>> THEN <<>>
    ELSE Head(sent_comp).clauses \o AllClauses(Tail(sent_comp))

\* C11: once comb and subord are assigned, comb is the number of clause units
\* whose rel_type is not root and subord the number of clause units whose
\* rel_type is none of root, conj, parataxis
C11_CombSubordCountUnits ==
    "subord" \in DOMAIN self =>
        LET units == AllClauses(self.sent_comp) IN
        /\ self.comb = Len(SelectSeq(units, LAMBDA u : u.rel_type # "root"))
        /\ self.subord =
             Len(SelectSeq(units, LAMBDA u : u.rel_type \notin {"root", "conj", "parataxis"}))

\* C12: no emitted NP unit's head_id is in the dep_ids of another emitted NP unit
\* of the same sentence, whichever of the two heads comes first
C12_NPHeadNotInOtherNP ==
    sent # <<>> =>
        \A a, b \in 1..Len(sent[1].nps) :
            a # b => sent[1].nps[a].head_id \notin Range(sent[1].nps[b].dep_ids)

\* C13: a sentence with a counted token has a T-unit, so once words are folded
\* construction never ends in ZeroDivisionError, num_cl >= num_tu >= num_s >= 1
\* and comb >= 0
C13_EverySentenceHasTUnit ==
    /\ (sent # <<>> /\ sent[1].length > 0) => sent[1].num_tu >= 1 /\ sent[1].num_cl >= 1
    /\ status # "ZeroDivisionError"
    /\ "num_s" \in DOMAIN self =>
        self.num_cl >= self.num_tu /\ self.num_tu >= self.num_s /\ self.num_s >= 1
    /\ "comb" \in DOMAIN self => self.comb >= 0

\* the sum of the values of a counter
RECURSIVE SumCounter(_, _)
SumCounter(counter, keys) ==
    IF keys = {} THEN 0
    ELSE LET key == CHOOSE x \in keys : TRUE
         IN counter[key] + SumCounter(counter, keys \ {key})

\* the number of tokens of the folded sentences with the given deprel and upos VERB
RECURSIVE VerbTokens(_, _)
VerbTokens(sent_comp, deprel) ==
    IF sent_comp = <<>> THEN 0
    ELSE Len(SelectSeq(Head(sent_comp).tokenlist,
                       LAMBDA token : token.deprel = deprel /\ token.upos = "VERB"))
         + VerbTokens(Tail(sent_comp), deprel)

\* C14: every clause unit's rel_type is a key of clause_counter, the fold never
\* raises KeyError, and after any prefix the counter values sum to num_cl, with
\* conj and xcomp counting the VERB tokens of that deprel only
C14_CounterSumsToNumCl ==
    /\ sent # <<>> =>
        \A k \in 1..Len(sent[1].clauses) : sent[1].clauses[k].rel_type \in ClauseVocabulary
    /\ status # "KeyError"
    /\ SumCounter(self.clause_counter, DOMAIN self.clause_counter) = self.num_cl
    /\ self.clause_counter["conj"] = VerbTokens(self.sent_comp, "conj")
    /\ self.clause_counter["xcomp"] = VerbTokens(self.sent_comp, "xcomp")

\* a folded sentence with a conj clause and a conj token that is no VERB
C14_Witness ==
    /\ self.clause_counter["conj"] >= 1
    /\ \E k \in 1..Len(self.sent_comp) :
        \E t \in 1..Len(self.sent_comp[k].tokenlist) :
            /\ self.sent_comp[k].tokenlist[t].deprel = "conj"
            /\ self.sent_comp[k].tokenlist[t].upos = "NOUN"

\* C15: whenever both constructions complete, the one of example.py has the same
\* num_s as the one of complexity.py, and so the same msl, cps, comb and subord
C15_VariantsAgree ==
    (status = "done" /\ example.status = "done") =>
        /\ example.self.num_s = self.num_s
        /\ SameNumber(example.self.msl, self.msl)
        /\ SameNumber(example.self.cps, self.cps)
        /\ example.self.comb = self.comb
        /\ example.self.subord = self.subord

====
